---------------------------- MODULE Spec2Model ----------------------------
(***************************************************************************)
(* A model of src/main.py: BestTeamsFinder, the branch-and-bound search    *)
(* for the teams (fixed-size subsets of the candidate names) that cover    *)
(* the most distinct letters.                                              *)
(*                                                                         *)
(* A character is a one-character string; the two strings "E'" and "e'"    *)
(* stand for the non-ASCII letters U+00C9 and U+00E9.  A name is a         *)
(* sequence of characters.  A char mask is an integer, as in the code.     *)
(* A Champion object is a record; its field id is the object's identity   *)
(* (the position at which _create_champion_objects created it), so that    *)
(* two champions of equal name are two objects, as in Python.               *)
(* List indices (idx, next_idx) are 0-based as in the code; At reads a     *)
(* 1-based TLA+ sequence at a 0-based index.                               *)
(***************************************************************************)
EXTENDS Integers, Sequences, FiniteSets

VARIABLES
    champ_names,             \* argument of __init__: the raw names
    team_size,               \* argument of __init__
    pc,                      \* "new" | "ready" | "run" | "KeyError" | "IndexError"
    champs,                  \* self._champs
    suffix_char_masks,       \* self._suffix_char_masks
    best_unique_char_count,  \* self._best_unique_char_count
    best_teams,              \* self._best_teams
    stack,                   \* the activation records of _recurse, innermost last
    solves,                  \* history: solve() calls made on this finder
    examined,                \* history: teams that reached the completion check
    pruned,                  \* history: the states at which the bound prune returned
    results,                 \* history: what each solve() of this finder returned
    reference                \* history: the first finder's input and first result

vars == <<champ_names, team_size, pc, champs, suffix_char_masks,
          best_unique_char_count, best_teams, stack, solves, examined,
          pruned, results, reference>>

---------------------------------------------------------------------------
(* Bounds of the model *)

\* longest candidate list drawn by Init
MaxNames == 3

\* largest team_size drawn by Init (one more than MaxNames, so that an
\* unsatisfiable team size is among the inputs)
MaxTeamSize == 4

\* most solve() calls made on one finder
MaxSolves == 2

\* longest raw name drawn by InitNorm
MaxNameLen == 2

---------------------------------------------------------------------------
(* Characters *)

Range(s) == {s[i] : i \in DOMAIN s}

At(s, i) == s[i + 1]

\* string.ascii_lowercase
ascii_lowercase ==
    <<"a", "b", "c", "d", "e", "f", "g", "h", "i", "j", "k", "l", "m",
      "n", "o", "p", "q", "r", "s", "t", "u", "v", "w", "x", "y", "z">>

ascii_uppercase ==
    <<"A", "B", "C", "D", "E", "F", "G", "H", "I", "J", "K", "L", "M",
      "N", "O", "P", "Q", "R", "S", "T", "U", "V", "W", "X", "Y", "Z">>

\* CHAR_TO_BIT = {c: 1 << i for i, c in enumerate(string.ascii_lowercase)}
CHAR_TO_BIT ==
    [c \in Range(ascii_lowercase) |->
        2 ^ ((CHOOSE i \in DOMAIN ascii_lowercase : ascii_lowercase[i] = c) - 1)]

\* str.lower on one character: an upper-case letter, ASCII or not, becomes
\* its lower-case letter; every other character is unchanged.
Lower(c) ==
    IF c \in Range(ascii_uppercase)
    THEN ascii_lowercase[CHOOSE i \in DOMAIN ascii_uppercase : ascii_uppercase[i] = c]
    ELSE IF c = "E'" THEN "e'" ELSE c

\* str.isalpha on one character: true of every Unicode letter, ASCII or not.
IsAlpha(c) ==
    c \in Range(ascii_lowercase) \cup Range(ascii_uppercase) \cup {"E'", "e'"}

---------------------------------------------------------------------------
(* Integers as bit sets *)

RECURSIVE BitOr(_, _)
\* a | b
BitOr(a, b) ==
    IF a = 0 THEN b
    ELSE IF b = 0 THEN a
    ELSE (IF a % 2 = 1 \/ b % 2 = 1 THEN 1 ELSE 0) + 2 * BitOr(a \div 2, b \div 2)

RECURSIVE BitAnd(_, _)
\* a & b
BitAnd(a, b) ==
    IF a = 0 \/ b = 0 THEN 0
    ELSE (IF a % 2 = 1 /\ b % 2 = 1 THEN 1 ELSE 0) + 2 * BitAnd(a \div 2, b \div 2)

RECURSIVE bit_count(_)
\* int.bit_count
bit_count(m) == IF m = 0 THEN 0 ELSE (m % 2) + bit_count(m \div 2)

RECURSIVE SumOver(_, _)
\* sum(f[x] for x in S)
SumOver(f, S) ==
    IF S = {} THEN 0
    ELSE LET x == CHOOSE y \in S : TRUE IN f[x] + SumOver(f, S \ {x})

---------------------------------------------------------------------------
(* The constructor's helpers *)

\* _normalize_names: "".join(filter(str.isalpha, name.lower())) for each name
_normalize_names(names) ==
    [i \in DOMAIN names |->
        SelectSeq([k \in DOMAIN names[i] |-> Lower(names[i][k])], IsAlpha)]

\* _compute_char_frequencies: Counter(char for name in names for char in set(name))
_compute_char_frequencies(names) ==
    [c \in UNION {Range(names[i]) : i \in DOMAIN names} |->
        Cardinality({i \in DOMAIN names : c \in Range(names[i])})]

\* _compute_char_rarity_scores: {char: 1 / (freq**100)}.  The float
\* 1 / freq**100 is kept as the rational it rounds: numerator 1, denominator
\* base**exponent.
_compute_char_rarity_scores(freqs) ==
    [c \in DOMAIN freqs |-> [base |-> freqs[c], exponent |-> 100]]

\* _score_mask: sum(scores[c] for c, bit in CHAR_TO_BIT.items() if mask & bit).
\* The float sum of the terms 1/f**100 is kept as the vector that counts, for
\* each base f, the terms of that base which survive double rounding: with g
\* the smallest base present, a term of base f > g is absorbed (lost to
\* rounding against 1/g**100, 53-bit significand) exactly when
\* (f/g)**100 > 2**53 * 26, which for the bases 1 .. 4 is 2f >= 3g.  For
\* lists of at most four names two such sums compare as floats the way the
\* vectors compare lexicographically.
_score_mask(mask, scores) ==
    LET letters == {c \in DOMAIN CHAR_TO_BIT : BitAnd(mask, CHAR_TO_BIT[c]) # 0}
        bases   == {scores[c].base : c \in letters}
        g       == IF bases = {} THEN 0
                   ELSE CHOOSE b \in bases : \A b2 \in bases : b <= b2
    IN  [f \in 1 .. MaxNames |->
            IF f \in bases /\ (f = g \/ 2 * f < 3 * g)
            THEN Cardinality({c \in letters : scores[c].base = f})
            ELSE 0]

\* u > v for two scores of _score_mask
ScoreGreater(u, v) ==
    \E f \in DOMAIN u :
        /\ u[f] > v[f]
        /\ \A e \in DOMAIN u : e < f => u[e] = v[e]

\* a name has a character with no entry in CHAR_TO_BIT: CHAR_TO_BIT[c] raises
RaisesKeyError(names) ==
    \E i \in DOMAIN names : \E c \in Range(names[i]) : c \notin DOMAIN CHAR_TO_BIT

\* _create_champion_objects:
\* Champion(name=name, char_mask=sum(CHAR_TO_BIT[c] for c in set(name)))
_create_champion_objects(names) ==
    [i \in DOMAIN names |->
        [id |-> i, name |-> names[i],
         char_mask |-> SumOver(CHAR_TO_BIT, Range(names[i]))]]

\* list.sort(key=..., reverse=True): descending by key, stable
SortedDescending(objs, key) ==
    LET Before(i, j) == \/ ScoreGreater(key[i], key[j])
                        \/ (key[i] = key[j] /\ i < j)
        Rank(i) == 1 + Cardinality({j \in DOMAIN objs : Before(j, i)})
    IN  [k \in DOMAIN objs |-> objs[CHOOSE i \in DOMAIN objs : Rank(i) = k]]

RECURSIVE OrAfter(_, _)
\* OrFrom with each entry appended before its own champion is folded in
OrAfter(cs, k) ==
    IF k >= Len(cs) THEN 0 ELSE BitOr(OrAfter(cs, k + 1), cs[k + 1].char_mask)

RECURSIVE OrFrom(_, _)
\* the accumulator acc of _compute_suffix_char_masks after the champions at
\* the 1-based positions k .. len have been folded in, last first
OrFrom(cs, k) ==
    IF k > Len(cs) THEN 0 ELSE BitOr(OrFrom(cs, k + 1), cs[k].char_mask)

\* _compute_suffix_char_masks
_compute_suffix_char_masks(cs) == [k \in DOMAIN cs |-> OrFrom(cs, k)]

---------------------------------------------------------------------------
(* The search: _recurse, one activation record per call *)

\* the activation record of _recurse(idx, current_team, current_mask); at is
\* "entry" before the three checks and "loop" inside the for loop, whose
\* loop variable is next_idx
Frame(idx, current_team, current_mask) ==
    [idx |-> idx, current_team |-> current_team, current_mask |-> current_mask,
     next_idx |-> idx, at |-> "entry"]

Top == stack[Len(stack)]

Pop == SubSeq(stack, 1, Len(stack) - 1)

AtEntry == pc = "run" /\ stack # <<>> /\ Top.at = "entry"

InLoop == pc = "run" /\ stack # <<>> /\ Top.at = "loop"

\* if len(current_team) == self._team_size
TeamComplete(f) == Len(f.current_team) = team_size

\* RecordTeam with a better team appended to the old ones, not replacing them
RecordTeamKeepingOld(f) ==
    LET unique_char_count == bit_count(f.current_mask)
    IN  IF unique_char_count >= best_unique_char_count
        THEN [count |-> unique_char_count,
              teams |-> Append(best_teams, f.current_team)]
        ELSE [count |-> best_unique_char_count, teams |-> best_teams]

\* RecordTeam with only strict improvements recorded, ties dropped
RecordTeamWithoutTies(f) ==
    LET unique_char_count == bit_count(f.current_mask)
    IN  IF unique_char_count > best_unique_char_count
        THEN [count |-> unique_char_count, teams |-> <<f.current_team>>]
        ELSE [count |-> best_unique_char_count, teams |-> best_teams]

\* the completion check's update of (_best_unique_char_count, _best_teams)
RecordTeam(f) ==
    LET unique_char_count == bit_count(f.current_mask)
    IN  IF unique_char_count > best_unique_char_count
        THEN [count |-> unique_char_count, teams |-> <<f.current_team>>]
        ELSE IF unique_char_count = best_unique_char_count
        THEN [count |-> best_unique_char_count,
              teams |-> Append(best_teams, f.current_team)]
        ELSE [count |-> best_unique_char_count, teams |-> best_teams]

\* NotEnoughChamps with both comparisons off by one
NotEnoughChampsOffByOne(f) ==
    \/ f.idx > Len(champs)
    \/ Len(f.current_team) + (Len(champs) - f.idx) + 1 < team_size

\* idx >= len(self._champs)
\* or len(current_team) + (len(self._champs) - idx) < self._team_size
NotEnoughChamps(f) ==
    \/ f.idx >= Len(champs)
    \/ Len(f.current_team) + (Len(champs) - f.idx) < team_size

\* self._suffix_char_masks[idx] raises IndexError
SuffixIndexError(f) == f.idx >= Len(suffix_char_masks)

\* max_possible_mask = current_mask | self._suffix_char_masks[idx]
max_possible_mask(f) == BitOr(f.current_mask, At(suffix_char_masks, f.idx))

\* CannotReachBest with a subtree that can only tie the best pruned as well
CannotReachBestOrTie(f) == bit_count(max_possible_mask(f)) <= best_unique_char_count

\* max_possible_mask.bit_count() < self._best_unique_char_count
CannotReachBest(f) == bit_count(max_possible_mask(f)) < best_unique_char_count

\* ChildFrame with the cursor left on the champion just added
ChildFrameSameCursor(f) ==
    LET new_champ == At(champs, f.next_idx)
        new_char_mask == BitOr(f.current_mask, new_champ.char_mask)
    IN  Frame(f.next_idx, Append(f.current_team, new_champ), new_char_mask)

\* ChildFrame with the cursor advanced from idx, not from next_idx
ChildFrameFromIdx(f) ==
    LET new_champ == At(champs, f.next_idx)
        new_char_mask == BitOr(f.current_mask, new_champ.char_mask)
    IN  Frame(f.idx + 1, Append(f.current_team, new_champ), new_char_mask)

\* self._recurse(next_idx + 1, current_team + [new_champ], new_char_mask)
ChildFrame(f) ==
    LET new_champ == At(champs, f.next_idx)
        new_char_mask == BitOr(f.current_mask, new_champ.char_mask)
    IN  Frame(f.next_idx + 1, Append(f.current_team, new_champ), new_char_mask)

\* __init__: normalise, score, create, sort, precompute, reset the result
Construct ==
    /\ pc = "new"
    /\ \E normalized_names \in {_normalize_names(champ_names)} :
       \E char_rarity_scores \in
             {_compute_char_rarity_scores(_compute_char_frequencies(normalized_names))} :
           IF RaisesKeyError(normalized_names)
           THEN /\ pc' = "KeyError"
                /\ UNCHANGED <<champs, suffix_char_masks,
                               best_unique_char_count, best_teams>>
           ELSE \E objs \in {_create_champion_objects(normalized_names)} :
                \E key \in {[i \in DOMAIN objs |->
                                _score_mask(objs[i].char_mask, char_rarity_scores)]} :
                \E sorted \in {SortedDescending(objs, key)} :
                    /\ pc' = "ready"
                    /\ champs' = sorted
                    /\ suffix_char_masks' = _compute_suffix_char_masks(sorted)
                    /\ best_unique_char_count' = 0
                    /\ best_teams' = <<>>
    /\ UNCHANGED <<champ_names, team_size, stack, solves, examined, pruned,
                   results, reference>>

\* the call self._recurse(0, [], 0) of solve()
StartSearch ==
    /\ pc' = "run"
    /\ stack' = <<Frame(0, <<>>, 0)>>
    /\ solves' = solves + 1
    /\ UNCHANGED <<champ_names, team_size, champs, suffix_char_masks,
                   best_unique_char_count, best_teams, examined, pruned,
                   results, reference>>

\* solve(), the first call on this finder
Solve == pc = "ready" /\ solves = 0 /\ StartSearch

\* solve(), called again on the same finder
SolveAgain == pc = "ready" /\ solves > 0 /\ solves < MaxSolves /\ StartSearch

\* _recurse: the team is complete; compare it with the best and return
CompletionCheck ==
    /\ AtEntry
    /\ TeamComplete(Top)
    /\ best_unique_char_count' = RecordTeam(Top).count
    /\ best_teams' = RecordTeam(Top).teams
    /\ stack' = Pop
    /\ examined' = Append(examined, [solve |-> solves, team |-> Top.current_team,
                                     count |-> bit_count(Top.current_mask)])
    /\ UNCHANGED <<champ_names, team_size, pc, champs, suffix_char_masks,
                   solves, pruned, results, reference>>

\* _recurse: too few champions remain; return
FeasibilityPrune ==
    /\ AtEntry
    /\ ~TeamComplete(Top)
    /\ NotEnoughChamps(Top)
    /\ stack' = Pop
    /\ UNCHANGED <<champ_names, team_size, pc, champs, suffix_char_masks,
                   best_unique_char_count, best_teams, solves, examined,
                   pruned, results, reference>>

\* _recurse: the remaining letters cannot reach the best count; return
BoundPrune ==
    /\ AtEntry
    /\ ~TeamComplete(Top)
    /\ ~NotEnoughChamps(Top)
    /\ IF SuffixIndexError(Top)
       THEN /\ pc' = "IndexError"
            /\ UNCHANGED <<stack, pruned>>
       ELSE /\ CannotReachBest(Top)
            /\ stack' = Pop
            /\ pruned' = Append(pruned,
                    [idx |-> Top.idx, team |-> Top.current_team,
                     mask |-> Top.current_mask,
                     bound |-> bit_count(max_possible_mask(Top)),
                     best |-> best_unique_char_count])
            /\ pc' = pc
    /\ UNCHANGED <<champ_names, team_size, champs, suffix_char_masks,
                   best_unique_char_count, best_teams, solves, examined,
                   results, reference>>

\* _recurse: no check returned; enter the for loop
Branch ==
    /\ AtEntry
    /\ ~TeamComplete(Top)
    /\ ~NotEnoughChamps(Top)
    /\ ~SuffixIndexError(Top)
    /\ ~CannotReachBest(Top)
    /\ stack' = Append(Pop, [Top EXCEPT !.at = "loop"])
    /\ UNCHANGED <<champ_names, team_size, pc, champs, suffix_char_masks,
                   best_unique_char_count, best_teams, solves, examined,
                   pruned, results, reference>>

\* one iteration of for next_idx in range(idx, len(self._champs)): the call
LoopCall ==
    /\ InLoop
    /\ Top.next_idx < Len(champs)
    /\ stack' = Append(Append(Pop, [Top EXCEPT !.next_idx = @ + 1]), ChildFrame(Top))
    /\ UNCHANGED <<champ_names, team_size, pc, champs, suffix_char_masks,
                   best_unique_char_count, best_teams, solves, examined,
                   pruned, results, reference>>

\* the for loop is exhausted; _recurse returns
LoopReturn ==
    /\ InLoop
    /\ Top.next_idx >= Len(champs)
    /\ stack' = Pop
    /\ UNCHANGED <<champ_names, team_size, pc, champs, suffix_char_masks,
                   best_unique_char_count, best_teams, solves, examined,
                   pruned, results, reference>>

\* return self._best_teams
SolveReturn ==
    /\ pc = "run"
    /\ stack = <<>>
    /\ pc' = "ready"
    /\ results' = Append(results, [teams |-> best_teams,
                                    count |-> best_unique_char_count])
    /\ reference' = IF reference = <<>>
                    THEN <<[names |-> champ_names, teams |-> best_teams,
                            count |-> best_unique_char_count]>>
                    ELSE reference
    /\ UNCHANGED <<champ_names, team_size, champs, suffix_char_masks,
                   best_unique_char_count, best_teams, stack, solves,
                   examined, pruned>>

\* s with the elements at positions i and j exchanged
Swapped(s, i, j) ==
    [k \in DOMAIN s |-> IF k = i THEN s[j] ELSE IF k = j THEN s[i] ELSE s[k]]

\* solver = BestTeamsFinder(champ_names, team_size), a second time: a fresh
\* finder on the same names (i = j) or on the names in another order
Rebuild ==
    /\ pc = "ready"
    /\ solves = 1
    /\ Len(reference) = 1
    /\ \E i, j \in DOMAIN champ_names :
          /\ i <= j
          /\ champ_names' = Swapped(champ_names, i, j)
          /\ reference' = <<reference[1], [i |-> i, j |-> j]>>
    /\ pc' = "new"
    /\ champs' = <<>>
    /\ suffix_char_masks' = <<>>
    /\ best_unique_char_count' = 0
    /\ best_teams' = <<>>
    /\ solves' = 0
    /\ examined' = <<>>
    /\ pruned' = <<>>
    /\ results' = <<>>
    /\ UNCHANGED <<team_size, stack>>

---------------------------------------------------------------------------
(* Inputs and specifications *)

SeqsUpTo(S, n) == UNION {[1 .. k -> S] : k \in 0 .. n}

\* candidate names of the search: lower-case names (those of the
\* documented scenarios), and names that normalise to "abc" and to ""
NamePool ==
    { <<"a", "b">>, <<"c", "d">>, <<"a", "c">>, <<"a">>,
      <<"A", "-", "b", "C">>, <<"1">> }

\* candidate names of the runs that are repeated or checked for termination
SmallPool == { <<"a", "b">>, <<"c", "d">>, <<"a">>, <<"A", "-", "b", "C">> }

\* characters of the raw names of InitNorm: letters of both cases, a
\* digit, a blank, punctuation, and a non-ASCII letter of both cases
NormChars == {"a", "B", "z", "1", " ", "-", "E'", "e'"}

InitOn(lists, sizes) ==
    /\ champ_names \in lists
    /\ team_size \in sizes
    /\ pc = "new"
    /\ champs = <<>>
    /\ suffix_char_masks = <<>>
    /\ best_unique_char_count = 0
    /\ best_teams = <<>>
    /\ stack = <<>>
    /\ solves = 0
    /\ examined = <<>>
    /\ pruned = <<>>
    /\ results = <<>>
    /\ reference = <<>>

Init == InitOn(SeqsUpTo(NamePool, MaxNames), 0 .. MaxTeamSize)

InitSmall == InitOn(SeqsUpTo(SmallPool, MaxNames), 0 .. MaxTeamSize)

InitNorm ==
    InitOn({<<n>> : n \in SeqsUpTo(NormChars, MaxNameLen)}
             \cup {<<n, <<"a">>>> : n \in SeqsUpTo(NormChars, MaxNameLen)},
           {0, 1})

Next ==
    \/ Construct
    \/ Solve
    \/ CompletionCheck
    \/ FeasibilityPrune
    \/ BoundPrune
    \/ Branch
    \/ LoopCall
    \/ LoopReturn
    \/ SolveReturn

NextRerun ==
    \/ Next
    \/ SolveAgain
    \/ Rebuild

\* one finder, used once (the class is single-use)
Spec == Init /\ [][Next]_vars

\* the same, run to completion: the search is one synchronous call
FairSpec == InitSmall /\ [][Next]_vars /\ WF_vars(Next)

\* solve() called again on the finder, and a second finder built on the
\* same names, possibly in another order
SpecRerun == InitSmall /\ [][NextRerun]_vars

\* the constructor alone, on raw names of every kind of character
SpecNorm == InitNorm /\ [][Construct]_vars

---------------------------------------------------------------------------
(* What the claims speak of, stated on the names rather than on the masks *)

\* the distinct letters of a champion's normalised name
Letters(c) == Range(c.name)

\* the distinct letters a set of champions covers, counted
Coverage(S) == Cardinality(UNION {Letters(c) : c \in S})

\* the champions of a team
Members(t) == Range(t)

\* every set of k candidates; candidates are objects, so two candidates of
\* equal name are two members
TeamsOfSize(k) == {S \in SUBSET Range(champs) : Cardinality(S) = k}

\* the sets of team_size candidates of the greatest coverage
MaximalTeams ==
    {S \in TeamsOfSize(team_size) :
        \A T \in TeamsOfSize(team_size) : Coverage(T) <= Coverage(S)}

\* the ranked position (0-based) of a champion
PosOf(c) == (CHOOSE k \in DOMAIN champs : champs[k] = c) - 1

\* the complete teams of the subtree of the search state (idx, team)
Completions(idx, team) ==
    {Members(team) \cup X :
        X \in {Y \in SUBSET {c \in Range(champs) : PosOf(c) >= idx} :
                  Cardinality(Y) = team_size - Len(team)}}

\* solve() has returned for the k-th time on this finder
Returned(k) == pc = "ready" /\ solves = k

---------------------------------------------------------------------------
(* C1 *)

\* C1: when team_size is at most the number of candidates, the first solve()
\* on a finder returns exactly the sets of team_size candidates (candidates
\* of equal name being distinct) of maximal coverage: none is missing, no
\* other set is listed, none is listed twice, and best_count is that maximum.
C1_ExactlyTheMaximalTeams ==
    (Returned(1) /\ team_size <= Len(champs)) =>
        /\ {Members(results[1].teams[i]) : i \in DOMAIN results[1].teams} = MaximalTeams
        /\ \A i \in DOMAIN best_teams : Len(best_teams[i]) = team_size
        /\ \A i, j \in DOMAIN best_teams :
              Members(best_teams[i]) = Members(best_teams[j]) => i = j
        /\ \A S \in MaximalTeams : best_unique_char_count = Coverage(S)
        /\ results[1].teams = best_teams

\* a first solve() has returned several tied teams of two, two candidates
\* have the same name, and the bound prune has skipped a subtree
C1_Witness ==
    /\ Returned(1)
    /\ team_size = 2
    /\ Len(best_teams) >= 2
    /\ pruned # <<>>
    /\ \E c, d \in Range(champs) : c # d /\ c.name = d.name

---------------------------------------------------------------------------
(* C2 *)

\* C2: in every state, every team of best_teams has team_size members and
\* covers exactly best_count letters, no team that has reached the
\* completion check covers more than best_count, and best_count is the
\* coverage of one of them (0 while none has reached it).
C2_BestIsMaxOfExamined ==
    /\ \A i \in DOMAIN best_teams :
          /\ Len(best_teams[i]) = team_size
          /\ Coverage(Members(best_teams[i])) = best_unique_char_count
    /\ \A i \in DOMAIN examined :
          Coverage(Members(examined[i].team)) <= best_unique_char_count
    /\ IF examined = <<>>
       THEN best_unique_char_count = 0
       ELSE \E i \in DOMAIN examined :
               Coverage(Members(examined[i].team)) = best_unique_char_count

\* the search is under way, a later complete team has beaten an earlier
\* one that covered some letter, and a tie has been collected
C2_Witness ==
    /\ pc = "run"
    /\ Len(best_teams) >= 2
    /\ \E i, j \in DOMAIN examined :
          i < j /\ 0 < examined[i].count /\ examined[i].count < examined[j].count

---------------------------------------------------------------------------
(* C3 *)

\* C3: when team_size exceeds the number of candidates, no solve() raises
\* an error, no complete team is ever recorded or examined, best_count stays
\* 0 and every solve() returns the empty list.
C3_UnsatisfiableIsEmpty ==
    team_size > Len(champ_names) =>
        /\ pc \notin {"IndexError", "KeyError"}
        /\ best_teams = <<>>
        /\ best_unique_char_count = 0
        /\ examined = <<>>
        /\ \A k \in DOMAIN results : results[k].teams = <<>>

\* solve() has returned for a team_size above the number of candidates,
\* on a list of two
C3_Witness ==
    /\ Returned(1)
    /\ team_size > Len(champ_names)
    /\ Len(champ_names) = 2
    /\ results[1].teams = <<>>

\* solve() has returned on the empty candidate list with team_size > 0
C3_WitnessEmptyList ==
    Returned(1) /\ champ_names = <<>> /\ team_size > 0 /\ results[1].teams = <<>>

---------------------------------------------------------------------------
(* C4 *)

\* C4: with team_size = 0 the first solve() on a finder, whatever the
\* candidate list, never enters the for loop and never calls _recurse again
\* (no candidate is added), and returns exactly one team, the empty one,
\* with best_count = 0.
C4_EmptyTeamOnly ==
    (team_size = 0 /\ solves <= 1) =>
        /\ Len(stack) <= 1
        /\ \A k \in DOMAIN stack : stack[k].at = "entry" /\ stack[k].current_team = <<>>
        /\ \A i \in DOMAIN examined : examined[i].team = <<>>
        /\ best_unique_char_count = 0
        /\ Returned(1) => results[1].teams = << <<>> >>

\* the first solve() has returned for team_size = 0 on three candidates
C4_Witness ==
    Returned(1) /\ team_size = 0 /\ Len(champs) = 3 /\ Len(results[1].teams) = 1

---------------------------------------------------------------------------
(* C5 *)

RECURSIVE Repeat(_, _)
\* the list s written k times in a row
Repeat(s, k) == IF k = 0 THEN <<>> ELSE Repeat(s, k - 1) \o s

\* a second finder has been built on the same names in the same order
RebuiltOnSameNames == Len(reference) = 2 /\ reference[2].i = reference[2].j

\* a fresh finder on the same names and team_size returns, at its first
\* solve(), the list and the best_count the first finder returned
FreshFinderAgrees ==
    (RebuiltOnSameNames /\ results # <<>>) =>
        /\ results[1].teams = reference[1].teams
        /\ results[1].count = reference[1].count

\* C5 as claimed: every later solve() on the same finder, and the first
\* solve() of a fresh finder on the same input, returns the list of teams and
\* the best_count of the first run.
C5_SolveIsIdempotent ==
    /\ \A k \in DOMAIN results : results[k] = results[1]
    /\ FreshFinderAgrees

\* C5 as amended: a fresh finder on the same input returns the list and the
\* best_count of the first run; the k-th solve() on one finder keeps
\* best_count and returns the first run's list written k times in a row.
C5_RepeatedSolveRepeatsTheList ==
    /\ \A k \in DOMAIN results :
          /\ results[k].teams = Repeat(results[1].teams, k)
          /\ results[k].count = results[1].count
    /\ FreshFinderAgrees

\* a fresh finder on the same names has returned from its second solve(),
\* its first having returned several teams
C5_Witness ==
    /\ RebuiltOnSameNames
    /\ Returned(2)
    /\ Len(results[1].teams) >= 2
    /\ Len(results[2].teams) = 2 * Len(results[1].teams)

---------------------------------------------------------------------------
(* C6 *)

\* the position in the first finder's list of the name at position k of
\* the second finder's list
OriginalPosition(k) ==
    IF k = reference[2].i THEN reference[2].j
    ELSE IF k = reference[2].j THEN reference[2].i ELSE k

\* C6: a finder built on the same names in another order returns the same
\* best_count and, each team read as the set of the candidates it is made
\* of, the same set of teams.
C6_OrderDoesNotMatter ==
    (Len(reference) = 2 /\ results # <<>>) =>
        /\ results[1].count = reference[1].count
        /\ {{OriginalPosition(c.id) : c \in Members(results[1].teams[n])} :
                n \in DOMAIN results[1].teams}
             = {{c.id : c \in Members(reference[1].teams[n])} :
                n \in DOMAIN reference[1].teams}

\* the second finder was built on the names in another order and its
\* ranking differs: it has returned the tied teams as another list
C6_Witness ==
    /\ Len(reference) = 2
    /\ Returned(1)
    /\ champ_names # reference[1].names
    /\ Len(results[1].teams) >= 2
    /\ [n \in DOMAIN results[1].teams |->
           [m \in DOMAIN results[1].teams[n] |-> results[1].teams[n][m].name]]
         # [n \in DOMAIN reference[1].teams |->
           [m \in DOMAIN reference[1].teams[n] |-> reference[1].teams[n][m].name]]

---------------------------------------------------------------------------
(* C7 *)

\* the raw name with its ASCII letters lower-cased and every other
\* character removed
AsciiLettersOf(raw) ==
    LET IsAsciiLetter(c) == c \in Range(ascii_lowercase)
    IN  SelectSeq([k \in DOMAIN raw |->
                      IF raw[k] \in Range(ascii_uppercase) THEN Lower(raw[k]) ELSE raw[k]],
                  IsAsciiLetter)

\* the bit of letter number k (0-based) is set in mask m
BitSet(m, k) == (m \div (2 ^ k)) % 2 = 1

\* C7: building a finder never fails, each champion's name is the raw name
\* reduced to its ASCII letters in lower case, and its char_mask has a bit
\* set exactly for each letter a-z of that name.
C7_NormaliseNeverFails ==
    /\ pc # "KeyError"
    /\ pc = "ready" =>
          \A c \in Range(champs) :
              /\ c.name = AsciiLettersOf(champ_names[c.id])
              /\ \A k \in DOMAIN ascii_lowercase :
                    BitSet(c.char_mask, k - 1) <=> ascii_lowercase[k] \in Range(c.name)

---------------------------------------------------------------------------
(* C8 *)

\* every call of _recurse has a cursor above its caller's, the depth is the
\* team's length and never above team_size, and a call whose team is
\* complete never enters the for loop
CallsDescend ==
    /\ \A k \in DOMAIN stack :
          /\ Len(stack[k].current_team) = k - 1
          /\ Len(stack[k].current_team) <= team_size
          /\ stack[k].at = "loop" => Len(stack[k].current_team) < team_size
          /\ k > 1 => stack[k].idx > stack[k - 1].idx

\* C8: solve() terminates: a search that has started returns; and in every
\* state each call has a strictly larger cursor than its caller, the depth
\* is at most team_size and no complete team is branched from.
C8_Terminates == []CallsDescend /\ ((pc = "run") ~> (pc = "ready"))

\* solve() has returned after a search that went three calls deep
C8_Witness ==
    /\ Returned(1)
    /\ team_size = 3
    /\ Len(examined) >= 1
    /\ Len(champs) = 3

---------------------------------------------------------------------------
(* C9 *)

\* the mask of a set of letters
MaskOf(letters) == SumOver(CHAR_TO_BIT, letters)

\* suffix_char_masks[idx] is the OR of the masks at the ranked positions >= idx
SuffixIsOrOfRest ==
    /\ Len(suffix_char_masks) = Len(champs)
    /\ \A idx \in 0 .. Len(champs) - 1 :
          At(suffix_char_masks, idx)
            = MaskOf(UNION {Letters(c) : c \in {d \in Range(champs) : PosOf(d) >= idx}})

\* no complete team of a search state's subtree covers more than
\* popcount(current_mask | suffix_masks[idx])
BoundIsUpper ==
    \A k \in DOMAIN stack :
        stack[k].idx < Len(champs) =>
            \A S \in Completions(stack[k].idx, stack[k].current_team) :
                Coverage(S) <= bit_count(max_possible_mask(stack[k]))

\* C9: the suffix masks are the ORs of the rest of the ranked list, the
\* bound is an upper bound of every completion, every subtree the bound
\* prune has skipped holds only teams of coverage below best_count (which
\* never decreases, so below the final one), and no subtree whose bound
\* equalled best_count was pruned.
C9_BoundPruneIsSound ==
    pc \in {"ready", "run"} =>
        /\ SuffixIsOrOfRest
        /\ BoundIsUpper
        /\ \A n \in DOMAIN pruned :
              /\ pruned[n].bound < pruned[n].best
              /\ pruned[n].best <= best_unique_char_count
              /\ \A S \in Completions(pruned[n].idx, pruned[n].team) :
                    Coverage(S) < best_unique_char_count

\* the bound prune has skipped a subtree that holds a complete team, and
\* another subtree was entered with a bound equal to best_count
C9_Witness ==
    /\ pc = "run"
    /\ \E n \in DOMAIN pruned : Completions(pruned[n].idx, pruned[n].team) # {}
    /\ \E k \in DOMAIN stack :
          /\ stack[k].at = "loop"
          /\ best_unique_char_count > 0
          /\ bit_count(max_possible_mask(stack[k])) = best_unique_char_count

---------------------------------------------------------------------------
(* C10 *)

\* how often the set S of candidates has reached the completion check
TimesExamined(S) ==
    Cardinality({i \in DOMAIN examined : Members(examined[i].team) = S})

\* every examined team lists its members at strictly increasing ranked positions
IncreasingPositions ==
    \A i \in DOMAIN examined :
        \A m \in 1 .. Len(examined[i].team) - 1 :
            PosOf(examined[i].team[m]) < PosOf(examined[i].team[m + 1])

\* the complete teams inside the subtrees the bound prune has skipped
PrunedTeams ==
    UNION {Completions(pruned[n].idx, pruned[n].team) : n \in DOMAIN pruned}

\* C10 as claimed: teams are built over strictly increasing ranked
\* positions, and one solve() brings every set of team_size candidates to
\* the completion check exactly once.
C10_EverySubsetVisitedOnce ==
    /\ IncreasingPositions
    /\ Returned(1) => \A S \in TeamsOfSize(team_size) : TimesExamined(S) = 1

\* C10 as amended: teams are built over strictly increasing ranked
\* positions, no set of candidates reaches the completion check twice, and
\* when solve() returns every set of team_size candidates has reached it
\* exactly once, except those inside a subtree the bound prune skipped, which
\* never reach it; every set of maximal coverage has reached it once.
C10_EverySubsetVisitedOnceUnlessPruned ==
    /\ IncreasingPositions
    /\ \A i \in DOMAIN examined : TimesExamined(Members(examined[i].team)) = 1
    /\ Returned(1) =>
          /\ \A S \in TeamsOfSize(team_size) :
                TimesExamined(S) = IF S \in PrunedTeams THEN 0 ELSE 1
          /\ \A S \in MaximalTeams : TimesExamined(S) = 1

\* solve() has returned, some sets of two candidates were examined and
\* another was skipped by the bound prune
C10_Witness ==
    /\ Returned(1)
    /\ team_size = 2
    /\ Len(examined) >= 2
    /\ \E S \in TeamsOfSize(team_size) : S \in PrunedTeams /\ TimesExamined(S) = 0

=============================================================================
